---- MODULE Spec2Model ----
(***************************************************************************)
(* A model of the browser-automation server of src/test.py: the session    *)
(* registry (SessionManager), the tab coordinator (TabManager), the        *)
(* command executor (JavaScriptCommandExecutor) and the interaction loop   *)
(* of the /interact handler (interact_command).                            *)
(*                                                                         *)
(* The server is one asyncio event loop.  A handler runs without           *)
(* interruption from one `await` of a browser-driver call to the next; the *)
(* reasoning service is called synchronously (llm.generate_response), so   *)
(* the loop's reply handling up to the next driver call is one             *)
(* uninterrupted section.  Every pc value starting with "w_" is a handler  *)
(* suspended in an await; pc = "loop" is a handler that holds the event    *)
(* loop at the top of the while loop of interact_command.                  *)
(***************************************************************************)
EXTENDS Integers, Sequences, FiniteSets, TLC

\* ------------------------------------------------------------------ bounds
MaxPages == 3        \* Spec: pages the browser creates in one run
MaxLog == 2          \* Spec: length of Session.commands_executed
OverlapPages == 2    \* SpecOverlap: pages the browser creates
OverlapLog == 1      \* SpecOverlap: length of Session.commands_executed
TeardownPages == 2   \* SpecTeardown: pages the browser creates
TeardownLog == 1     \* SpecTeardown: length of Session.commands_executed
LivePages == 2       \* SpecLive: pages the browser creates
LiveLog == 1         \* SpecLive: entries of commands_executed that are kept
ParsePages == 2      \* SpecParse: pages the browser creates
ParseLog == 1        \* SpecParse: length of Session.commands_executed
ParseLines == 2      \* SpecParse: lines of a reply text
ReentryPages == 1    \* SpecReentry: pages the browser creates
ReentryLog == 1      \* SpecReentry: length of Session.commands_executed
GroundPages == 2     \* SpecGround: pages the browser creates
GroundLog == 1       \* SpecGround: length of Session.commands_executed
Excess == 1          \* SpecGround: elements of a page beyond the cap
FencePages == 2      \* SpecFence: pages the browser creates
FenceLog == 1        \* SpecFence: length of Session.commands_executed
MaxPolls == 2        \* SpecWait: poll periods in the timeout of a wait_element
MaxCalls == 3        \* SpecExecute: page methods a command string invokes
TabPages == 3        \* SpecTabs: pages of the context
ClosersPages == 1    \* SpecClosers: pages the browser creates
ClosersLog == 1      \* SpecClosers: length of Session.commands_executed
MaxMessages == 5     \* SpecChat: messages of a conversation after the system one
FenceLines == 3      \* SpecFence: lines of a reply text
LegacyStreak == 4    \* SpecLegacy: failed interactions in a row on a session
LegacyLog == 2       \* SpecLegacy: length of a session's commands_executed

\* ------------------------------------------------------- program constants
MAX_RETRIES == 5     \* Config.MAX_RETRIES
USE_JAVASCRIPT_EXECUTION == TRUE    \* Config.USE_JAVASCRIPT_EXECUTION
ELEMENT_CAP == 50    \* get_page_elements: `elements.slice(0, 50)`
LegacyRetries == 3   \* server.py: `if session["retry_count"] >= 3`

SessionId == "s1"
Handlers == {"h1", "h2"}          \* concurrent /interact requests
Closers == {"api", "sweep"}       \* DELETE /session/{id} and the idle sweep
NoPage == 0
NoCtx == 0
\* every request creates at most one context (line 1536)
Contexts == 1..Cardinality(Handlers)

VARIABLES
    sessions,       \* SessionManager.sessions: the ids in the registry
    created,        \* the session id was handed out by start_session
    session,        \* the Session object of SessionId (lives on after del)
    bound,          \* the bounds of the run: [pages, log, saturate, full, text,
                    \* dom, raises, elements], fixed by Init
    browser,        \* the browser engine: contexts, their open pages, listeners
    hs,             \* per /interact request: pc and the locals of the handler
    reply,          \* the text llm.generate_response returned in the last step, if
                    \* asked, and whether the reasoning service raised an error
    response,       \* the InteractResponse (or error) the last step returned, if any
    cl,             \* per closer: pc of SessionManager.close_session
    legacy,         \* the process of server.py: its registry, its pages, and
                    \* what its last step evaluated and returned
    dom,            \* a page's element that click_element resolves, and the
                    \* record of the last click_element call on it
    wait,           \* the wait_for_element call on a page: the poll of its script, and
                    \* whether the document holds an element the selector means
    executor,       \* the last CommandExecutor.execute call: its command, the page
                    \* methods eval invoked, and what it raised
    tabs,           \* the last TabManager.get_all_pages call: its pc, its locals
                    \* pages and idx, and the page_info it builds
    chat            \* llmPerplexity.llm: its message history, and what the last
                    \* generate_response call returned

vars == <<sessions, created, session, bound, browser, hs, reply, response, cl,
          legacy, dom, wait, executor, tabs, chat>>

\* ----------------------------------------------------------------- helpers
Range(s) == {s[i] : i \in 1..Len(s)}

RECURSIVE FilterSeq(_, _)
\* [p for p in s if p in keep]
FilterSeq(s, keep) ==
    IF s = <<>> THEN <<>>
    ELSE IF Head(s) \in keep THEN <<Head(s)>> \o FilterSeq(Tail(s), keep)
         ELSE FilterSeq(Tail(s), keep)

\* ------------------------------------------------------------- the browser
\* the pages of every context that is not closed: page.is_closed() is false
OpenPages == UNION {Range(browser.pages[c]) : c \in browser.open}

is_closed(p) == p \notin OpenPages

\* BrowserContext.pages of context c (the empty list for no context)
ContextPages(c) == IF c \in browser.open THEN browser.pages[c] ELSE <<>>

\* page.close() took effect: the page leaves its context's page list
ClosePages(b, ps) ==
    [b EXCEPT !.pages = [c \in DOMAIN b.pages |->
                            FilterSeq(b.pages[c], Range(b.pages[c]) \ ps)]]

\* context.close() took effect: the context and all its pages are closed
CloseContext(b, c) ==
    [b EXCEPT !.open = @ \ {c}, !.pages[c] = <<>>]

\* handle_popup: the "page" listener of interact_command
handle_popup(s, popup) ==
    IF popup \notin Range(s.all_pages)
    THEN [s EXCEPT !.all_pages = Append(@, popup)]
    ELSE s

\* the context's "page" event for page q of context c, delivered to the
\* listener when one is installed on c
EmitPage(s, b, c, q) == IF c \in b.listeners THEN handle_popup(s, q) ELSE s

\* ------------------------------------------------------------------- state
NewSession ==
    [page |-> NoPage, all_pages |-> <<>>, commands_executed |-> <<>>,
     retry_count |-> 0, action_done |-> FALSE, llm |-> FALSE,
     browser_context |-> NoCtx]

\* tab_index of a command that carries none (close_tab: the current tab)
None == -2

\* no grounding pass has returned
NoElements == [kind |-> "none", count |-> 0]

\* the locals of a handler, those of the command it executes included (they
\* are kept until grounding is done); count is what close_other_tabs
\* returned; page_elements is what the grounding pass returned (kept for the
\* settling delay); before and dom are history: session.page and the open
\* pages when the command was issued, and the page the grounding pass saw
\* (its qualifying elements, and whether the extraction raised)
IdleHandler ==
    [pc |-> "idle", page |-> NoPage, cmd |-> "none", tab_index |-> None,
     target |-> NoPage, open |-> <<>>, was_current |-> FALSE, ctx |-> NoCtx,
     count |-> 0, page_elements |-> NoElements,
     dom |-> [elements |-> 0, raised |-> FALSE],
     before |-> [page |-> NoPage, open |-> {}]]

\* a close_session call: its pc and, as history, whether it has called the
\* close of everything it was due to close so far (ok), whether one of the
\* closes it called raised (raised), and how its del ended (out)
IdleCloser == [pc |-> "idle", ok |-> TRUE, raised |-> FALSE, out |-> "none"]

\* no request to the reasoning service in the step
NoReply == [asked |-> FALSE, text |-> <<>>, error |-> FALSE]

NoResponse ==
    [handler |-> "none", status |-> "none", commands_executed |-> <<>>,
     error |-> "none"]

\* an element of a page by what click_element reads and writes: its tag
\* name and its target and rel attributes
PlainElement == [tagName |-> "BUTTON", target |-> "", rel |-> ""]

\* no call of click_element yet
NoClick ==
    [selector_type |-> "none", open_in_new_tab |-> FALSE, attempts |-> <<>>,
     outcomes |-> <<>>, events |-> <<>>, wait_raised |-> FALSE, result |-> FALSE]

\* no wait_for_element call was made, and the document holds no element the
\* selector means
NoWait ==
    [pc |-> "idle", selector_type |-> "css", timeout |-> 0, elapsed |-> 0,
     present |-> FALSE, raised |-> FALSE, result |-> FALSE]

\* CommandExecutor.execute was not called
NoExecution ==
    [command |-> [page_prefix |-> FALSE, methods |-> <<>>], invoked |-> <<>>,
     raised |-> "none"]

\* TabManager.get_all_pages was not called
NoTabs == [pc |-> "idle", pages |-> <<>>, idx |-> 0, page_info |-> <<>>]

\* llmPerplexity.llm(system_prompt): line 13
NoChat ==
    [messages |-> <<[role |-> "system", content |-> "system_prompt"]>>,
     returned |-> "none"]

\* server.py: no reply, no response in the step
LegacyNoResponse == [status |-> "none", retries_left |-> 0]

\* server.py after its lifespan started: an empty registry (line 12), a
\* browser without pages
LegacyInit ==
    [sessions |-> <<>>, issued |-> {}, open |-> {}, npages |-> 0,
     evaluated |-> "none", response |-> LegacyNoResponse]

\* the state after SessionManager() and the browser's launch, for a run
\* within the bounds b
InitBounded(b) ==
    /\ bound = b
    /\ sessions = {}
    /\ created = FALSE
    /\ session = NewSession
    /\ browser = [pages |-> [c \in Contexts |-> <<>>], open |-> {},
                  nctx |-> 0, npages |-> 0, listeners |-> {}]
    /\ hs = [h \in Handlers |-> IdleHandler]
    /\ reply = NoReply
    /\ response = NoResponse
    /\ cl = [c \in Closers |-> IdleCloser]
    /\ legacy = LegacyInit
    /\ dom \in [element : bound.elements, click : {NoClick}]
    /\ wait = NoWait
    /\ executor = NoExecution
    /\ tabs = NoTabs
    /\ chat = NoChat

Init == InitBounded([pages |-> MaxPages, log |-> MaxLog, saturate |-> FALSE, full |-> FALSE, text |-> <<>>, dom |-> {1}, raises |-> FALSE,
                 elements |-> {PlainElement}])

\* some handler holds the event loop (it is between two awaits)
Busy == \E h \in Handlers : hs[h].pc = "loop"

\* ---------------------------------------------------------- start_session
Modes == {"interact", "scrape"}

\* POST /start_session: create_session, and the llm for mode interact
StartSession(mode) ==
    /\ ~created
    /\ ~Busy
    /\ created' = TRUE
    /\ sessions' = sessions \cup {SessionId}
    /\ session' = [NewSession EXCEPT !.llm = (mode = "interact")]
    /\ response' = NoResponse
    /\ UNCHANGED <<bound, legacy, dom, chat, tabs, executor, wait, browser, hs, cl>>
    /\ reply' = NoReply

\* ------------------------------------------------- interact_command: intake
\* the handler returns (or raises): the response of this invocation
Finish(h, status, error, log) ==
    /\ hs' = [hs EXCEPT ![h] = IdleHandler]
    /\ response' = [handler |-> h, status |-> status, commands_executed |-> log,
                    error |-> error]

\* the handler goes on (to its next await, or to the top of the loop)
Continue(h, pc) ==
    /\ hs' = [hs EXCEPT ![h] = [IdleHandler EXCEPT !.pc = pc, !.page = hs[h].page]]
    /\ response' = NoResponse

\* the handler suspends in a driver call of the command it executes
Await(h, rec) ==
    /\ hs' = [hs EXCEPT ![h] = rec]
    /\ response' = NoResponse

\* the intake without lines 1581-1582: the flags stay as they were left
EnterLoop_NoReset(h, s, b) ==
    /\ browser' = b
    /\ session' = s
    /\ IF ~s.llm
       THEN Finish(h, "http400", "no_llm", <<>>)
       ELSE Await(h, [IdleHandler EXCEPT !.pc = "loop", !.page = s.page])

\* lines 1572-1586: the llm test, page = session.page, the reset, the loop
EnterLoop(h, s, b) ==
    /\ browser' = b
    /\ IF ~s.llm
       THEN /\ session' = s
            /\ Finish(h, "http400", "no_llm", <<>>)
       ELSE /\ session' = [s EXCEPT !.action_done = FALSE, !.retry_count = 0]
            /\ Await(h, [IdleHandler EXCEPT !.pc = "loop", !.page = s.page])

\* lines 1542-1546: await session.browser_context.new_page() when no page
AfterContext(h, s, b) ==
    IF s.page = NoPage
    THEN /\ session' = s
         /\ browser' = b
         /\ Await(h, [IdleHandler EXCEPT !.pc = "w_page", !.ctx = s.browser_context])
    ELSE EnterLoop(h, s, b)

\* POST /interact/{id}: get_session, then the first await of the handler
Intake(h) ==
    /\ hs[h].pc = "idle"
    /\ ~Busy
    /\ UNCHANGED <<sessions, created, bound, legacy, dom, chat, tabs, executor, wait, cl>>
    /\ IF SessionId \notin sessions
       THEN /\ Finish(h, "http404", "not_found", <<>>)
            /\ UNCHANGED <<session, browser>>
       ELSE IF session.browser_context = NoCtx
            THEN /\ Await(h, [IdleHandler EXCEPT !.pc = "w_context"])
                 /\ UNCHANGED <<session, browser>>
            ELSE AfterContext(h, session, browser)
    /\ reply' = NoReply

\* _browser.new_context() returned or raised
ResumeContext(h) ==
    /\ hs[h].pc = "w_context"
    /\ ~Busy
    /\ UNCHANGED <<sessions, created, bound, legacy, dom, chat, tabs, executor, wait, cl>>
    /\ \/ /\ Finish(h, "http500", "context", <<>>)
          /\ UNCHANGED <<session, browser>>
       \/ LET c == browser.nctx + 1
              b2 == [browser EXCEPT !.nctx = c, !.open = @ \cup {c}]
              s2 == [session EXCEPT !.browser_context = c]
          IN  AfterContext(h, s2, b2)
    /\ reply' = NoReply

\* the intake that counts a failed new_page() as a retry and awaits it again
ResumePage_Retry(h) ==
    /\ hs[h].pc = "w_page"
    /\ ~Busy
    /\ UNCHANGED <<sessions, created, bound, legacy, dom, chat, tabs, executor, wait, cl>>
    /\ \/ /\ session.retry_count < MAX_RETRIES
          /\ session' = [session EXCEPT !.retry_count = @ + 1]
          /\ Await(h, hs[h])
          /\ UNCHANGED browser
       \/ /\ hs[h].ctx \in browser.open
          /\ browser.npages < bound.pages
          /\ LET c == hs[h].ctx
                 q == browser.npages + 1
                 b2 == [browser EXCEPT !.npages = q, !.pages[c] = Append(@, q)]
                 s1 == EmitPage(session, browser, c, q)
                 s2 == [s1 EXCEPT !.page = q, !.all_pages = Append(@, q)]
                 b3 == [b2 EXCEPT !.listeners = @ \cup {s2.browser_context}]
             IN  EnterLoop(h, s2, b3)
    /\ reply' = NoReply

\* new_page() returned or raised; lines 1544-1566
ResumePage(h) ==
    /\ hs[h].pc = "w_page"
    /\ ~Busy
    /\ UNCHANGED <<sessions, created, bound, legacy, dom, chat, tabs, executor, wait, cl>>
    /\ \/ /\ Finish(h, "http500", "page", <<>>)
          /\ UNCHANGED <<session, browser>>
       \/ /\ hs[h].ctx \in browser.open
          /\ browser.npages < bound.pages
          /\ LET c == hs[h].ctx
                 q == browser.npages + 1
                 b2 == [browser EXCEPT !.npages = q, !.pages[c] = Append(@, q)]
                 s1 == EmitPage(session, browser, c, q)
                 s2 == [s1 EXCEPT !.page = q, !.all_pages = Append(@, q)]
                 b3 == [b2 EXCEPT !.listeners = @ \cup {s2.browser_context}]
             IN  EnterLoop(h, s2, b3)
    /\ reply' = NoReply

\* ------------------------------------------------- interact_command: the loop
\* the except branch that enters the failed command in the log
Fail_Logged(h, s, b) ==
    LET s2 == [s EXCEPT !.commands_executed = Append(@, hs[h].cmd),
                        !.retry_count = @ + 1]
    IN  /\ session' = s2
        /\ browser' = b
        /\ IF s2.retry_count >= MAX_RETRIES
           THEN Finish(h, "failure", "max_retries_last_error", s2.commands_executed)
           ELSE Continue(h, "w_settle")

\* lines 1671-1691 and 1694-1709: the except branch of the loop body
Fail(h, s, b) ==
    LET s2 == [s EXCEPT !.retry_count = @ + 1]
    IN  /\ session' = s2
        /\ browser' = b
        /\ IF s2.retry_count >= MAX_RETRIES
           THEN Finish(h, "failure", "max_retries_last_error", s2.commands_executed)
           ELSE Continue(h, "w_settle")

\* TabManager.get_all_pages, line 455: closed pages leave the tracking list
Prune(s, b) ==
    IF s.browser_context = NoCtx THEN s
    ELSE [s EXCEPT !.all_pages =
            FilterSeq(@, UNION {Range(b.pages[c]) : c \in b.open})]

\* the run's bound on the log leaves room for one more entry
HasRoom(s) == bound.saturate \/ Len(s.commands_executed) < bound.log

\* line 1618: commands_executed.append(command_str); in a saturating run a
\* full log stays as it is
LogAppend(s, cmd) ==
    IF Len(s.commands_executed) < bound.log
    THEN [s EXCEPT !.commands_executed = Append(@, cmd)]
    ELSE s

\* lines 1618 and 1642-1656: the command of me succeeded; the log, then
\* grounding
Succeed(h, me, s, b) ==
    LET s2 == LogAppend(s, me.cmd)
    IN  /\ HasRoom(s)
        /\ session' = Prune(s2, b)
        /\ browser' = b
        /\ Await(h, [me EXCEPT !.pc = "w_ground", !.open = <<>>])

\* the commands a reply can decode to, by what the executor does with them:
\* "click" stands for every command applied to the page (goto, click, fill,
\* select, press_key, wait, wait_element)
TabIndexes == -1..bound.pages

Commands ==
    {[action |-> "click", tab_index |-> None],
     [action |-> "close_other_tabs", tab_index |-> None],
     [action |-> "unknown", tab_index |-> None]}
    \cup [action : {"switch_tab", "close_tab"}, tab_index : TabIndexes \cup {None}]

\* the page bounds of the runs, and Commands for each of them
PageBounds ==
    {MaxPages, OverlapPages, TeardownPages, LivePages, ParsePages, ReentryPages,
     GroundPages, FencePages, ClosersPages}

CommandsOf ==
    [n \in PageBounds |->
        {[action |-> "click", tab_index |-> None],
         [action |-> "close_other_tabs", tab_index |-> None],
         [action |-> "unknown", tab_index |-> None]}
        \cup [action : {"switch_tab", "close_tab"}, tab_index : (-1..n) \cup {None}]]

\* ------------------------------------------------------------ reply texts
\* A reply is a sequence of lines.  A line is modelled by what json.loads
\* makes of it once the markdown fence (fence) is removed: nothing ("blank":
\* the line is empty or white space), no JSON ("text"), a JSON value that is
\* no object ("array", "scalar", "null"), the object {} ("empty_object"), or
\* an object with an action (or "absent") and a tab_index (or None)
Other(k) == [fence |-> FALSE, kind |-> k, action |-> "absent", tab_index |-> None]

Object(a, i) == [fence |-> FALSE, kind |-> "object", action |-> a, tab_index |-> i]

Fenced(l) == [l EXCEPT !.fence = TRUE]

\* the action names of JAVASCRIPT_INTERACT_PROMPT, "click" for the page ones
Vocabulary == {"click", "switch_tab", "close_tab", "close_other_tabs", "completed"}

\* one line for every command (with at most n pages), the completed command
\* and a line without JSON
PlainLines(n) ==
    {Object(c.action, c.tab_index) : c \in CommandsOf[n]}
    \cup {Object("completed", None), Other("text")}

Objects == {Object(a, None) : a \in (Vocabulary \cup {"unknown", "absent"})}

AllLines ==
    LET bare == {Other(k) : k \in {"blank", "text", "array", "scalar",
                                   "empty_object"}} \cup Objects
    IN  bare \cup {Fenced(l) : l \in bare}

\* every text of at most ParseLines lines
AllTexts == UNION {[1..k -> AllLines] : k \in 0..ParseLines}

\* the texts of one plain line
PlainTexts == [n \in PageBounds |-> {<<l>> : l \in PlainLines(n)}]

\* the reply texts of a run: any plain line at every request, or (full) the
\* text bound.text at every request
Texts == IF bound.full THEN {bound.text} ELSE PlainTexts[bound.pages]

\* Python's None as a command_dict, and the next_command values
NoneValue == Other("None")

NoNext == [kind |-> "None", line |-> Other("blank")]

DefaultNext == [kind |-> "default", line |-> Other("blank")]

NoneResult ==
    [command_dict |-> NoneValue, next_command |-> NoNext,
     is_completed |-> FALSE, raised |-> FALSE]

\* line.strip() is empty: the fence marker alone is not white space
IsBlank(l) == l.kind = "blank" /\ ~l.fence

\* lines 1277-1278: [line.strip() for line in response.split('\n') if line.strip()]
NonBlank(text) == SelectSeq(text, LAMBDA l : ~IsBlank(l))

\* lines 1284-1303, the inner try of parse_javascript_response on the
\* non-blank lines: json.loads of the first line without its fence, the
\* completed test, the next command; raised is an exception that is not the
\* JSONDecodeError caught at line 1305 (.get on a value that is no dict)
Decode(lines) ==
    LET first == [lines[1] EXCEPT !.fence = FALSE]
        next == IF Len(lines) > 1 THEN [kind |-> "line", line |-> lines[2]]
                ELSE DefaultNext
    IN  CASE first.kind \in {"blank", "text"} -> NoneResult
          [] first.kind \in {"array", "scalar", "null"} ->
                [NoneResult EXCEPT !.raised = TRUE]
          [] first.action = "completed" ->
                [command_dict |-> first, next_command |-> NoNext,
                 is_completed |-> TRUE, raised |-> FALSE]
          [] OTHER ->
                [command_dict |-> first, next_command |-> next,
                 is_completed |-> FALSE, raised |-> FALSE]

\* the parser without its outer try: the exception of .get on a JSON value
\* that is no object leaves it
parse_javascript_response_NoOuterTry(text) ==
    LET lines == NonBlank(text)
    IN  IF lines = <<>> THEN NoneResult ELSE Decode(lines)

\* the parser that takes the lines as they are, blank ones included
parse_javascript_response_RawLines(text) ==
    IF text = <<>> THEN NoneResult
    ELSE IF Decode(text).raised THEN NoneResult ELSE Decode(text)

\* ResponseParser.parse_javascript_response: the outer try catches the rest
parse_javascript_response(text) ==
    LET lines == NonBlank(text)
    IN  IF lines = <<>> THEN NoneResult
        ELSE IF Decode(lines).raised THEN NoneResult
             ELSE Decode(lines)

\* `not command_dict` (line 1602): None and the empty dict
Falsy(d) == d.kind \in {"None", "empty_object"}

\* the command the executor reads from command_dict: lines 1331 and 1398-1432
CommandOf(d) ==
    [action |-> IF d.action \in Vocabulary \ {"completed"} THEN d.action
                ELSE "unknown",
     tab_index |-> d.tab_index]

\* commands in flight: issued, and neither success nor failure reported yet
InFlight == {h \in Handlers : hs[h].pc \in {"w_exec", "w_front"}}

\* an index test that lets Python's negative indexes through
InRange_Negative(i, n) == -n <= i /\ i < n

\* 0 <= tab_index < len(pages): lines 489 and 526
InRange(i, n) == 0 <= i /\ i < n

\* pages[i] of a Python list
PageAt(pages, i) == IF i < 0 THEN pages[Len(pages) + i + 1] ELSE pages[i + 1]

\* command_dict.get('tab_index', 0): line 1400
SwitchIndex(c) == IF c.tab_index = None THEN 0 ELSE c.tab_index

\* JavaScriptCommandExecutor.execute_command up to its first await, for a
\* handler that holds the event loop; lines 1608-1616
Issue(h, c) ==
    LET me == [hs[h] EXCEPT !.cmd = c.action, !.tab_index = c.tab_index,
                            !.before = [page |-> session.page, open |-> OpenPages]]
        pages == ContextPages(session.browser_context)
        open_pages == FilterSeq(pages, OpenPages)
    IN
    CASE c.action = "click" ->
            /\ Await(h, [me EXCEPT !.pc = "w_exec"])
            /\ UNCHANGED <<session, browser>>
      [] c.action = "switch_tab" ->
            IF session.browser_context # NoCtx
               /\ InRange(SwitchIndex(c), Len(pages))
            THEN /\ session' = [session EXCEPT !.page = PageAt(pages, SwitchIndex(c))]
                 /\ Await(h, [me EXCEPT !.pc = "w_front",
                                        !.target = PageAt(pages, SwitchIndex(c))])
                 /\ UNCHANGED browser
            ELSE Fail(h, session, browser)
      [] c.action = "close_tab" /\ c.tab_index = None ->
            IF session.browser_context # NoCtx
               /\ session.page # NoPage /\ ~is_closed(session.page)
            THEN /\ Await(h, [me EXCEPT !.pc = "w_exec", !.target = session.page,
                                        !.open = open_pages])
                 /\ UNCHANGED <<session, browser>>
            ELSE Fail(h, session, browser)
      [] c.action = "close_tab" /\ c.tab_index # None ->
            IF session.browser_context # NoCtx
               /\ InRange(c.tab_index, Len(open_pages))
            THEN /\ Await(h, [me EXCEPT !.pc = "w_exec",
                                !.target = PageAt(open_pages, c.tab_index),
                                !.open = open_pages,
                                !.was_current = (PageAt(open_pages, c.tab_index) = session.page)])
                 /\ UNCHANGED <<session, browser>>
            ELSE Fail(h, session, browser)
      [] c.action = "close_other_tabs" ->
            IF session.browser_context = NoCtx \/ session.page = NoPage
            THEN Succeed(h, me, session, browser)
            ELSE /\ Await(h, [me EXCEPT !.pc = "w_exec", !.target = session.page,
                                        !.open = pages])
                 /\ UNCHANGED <<session, browser>>
      [] OTHER -> Fail(h, session, browser)

\* line 1586: the while condition is false; lines 1711-1720
LoopExit(h) ==
    /\ hs[h].pc = "loop"
    /\ session.action_done \/ session.retry_count >= MAX_RETRIES
    /\ Finish(h, "success", "none", session.commands_executed)
    /\ UNCHANGED <<sessions, created, session, bound, legacy, dom, chat, tabs, executor, wait, browser, cl>>
    /\ reply' = NoReply

\* the loop takes the reply for one without a command: lines 1597 and 1602
Malformed(t) ==
    /\ ~parse_javascript_response(t).raised
    /\ ~parse_javascript_response(t).is_completed
    /\ Falsy(parse_javascript_response(t).command_dict)

\* the loop takes the reply for the completed command: line 1597
Completed(t) ==
    /\ ~parse_javascript_response(t).raised
    /\ parse_javascript_response(t).is_completed

\* the plain texts by what the loop takes them for
MalformedPlain == [n \in PageBounds |-> {t \in PlainTexts[n] : Malformed(t)}]

CompletedPlain == [n \in PageBounds |-> {t \in PlainTexts[n] : Completed(t)}]

CommandPlain ==
    [n \in PageBounds |-> {t \in PlainTexts[n] : ~Malformed(t) /\ ~Completed(t)}]

\* the texts of the run by what the loop takes them for
MalformedTexts ==
    IF bound.full THEN {t \in Texts : Malformed(t)} ELSE MalformedPlain[bound.pages]

CompletedTexts ==
    IF bound.full THEN {t \in Texts : Completed(t)} ELSE CompletedPlain[bound.pages]

CommandTexts ==
    IF bound.full THEN {t \in Texts : ~Malformed(t) /\ ~Completed(t)}
    ELSE CommandPlain[bound.pages]

\* the loop that takes the completed command for a reply without a command:
\* no flag, no break, one more retry
ReplyCompleted_AsMalformed(h) ==
    /\ hs[h].pc = "loop"
    /\ ~session.action_done /\ session.retry_count < MAX_RETRIES
    /\ session' = [session EXCEPT !.retry_count = @ + 1]
    /\ response' = NoResponse
    /\ UNCHANGED <<sessions, created, bound, legacy, dom, chat, tabs, executor, wait, browser, hs, cl>>
    /\ \E t \in CompletedTexts :
          reply' = [asked |-> TRUE, text |-> t, error |-> FALSE]

\* lines 1597-1600: the reply parses to the completed command
ReplyCompleted(h) ==
    /\ hs[h].pc = "loop"
    /\ ~session.action_done /\ session.retry_count < MAX_RETRIES
    /\ session' = [session EXCEPT !.action_done = TRUE]
    /\ Finish(h, "success", "none", session.commands_executed)
    /\ UNCHANGED <<sessions, created, bound, legacy, dom, chat, tabs, executor, wait, browser, cl>>
    /\ \E t \in CompletedTexts :
          reply' = [asked |-> TRUE, text |-> t, error |-> FALSE]

\* lines 1602-1606: no command could be decoded from the reply
ReplyMalformed(h) ==
    /\ hs[h].pc = "loop"
    /\ ~session.action_done /\ session.retry_count < MAX_RETRIES
    /\ session' = [session EXCEPT !.retry_count = @ + 1]
    /\ response' = NoResponse
    /\ UNCHANGED <<sessions, created, bound, legacy, dom, chat, tabs, executor, wait, browser, hs, cl>>
    /\ \E t \in MalformedTexts :
          reply' = [asked |-> TRUE, text |-> t, error |-> FALSE]

\* llmGoogle.py line 23: f"Error generating response: {str(e)}", a line that
\* is no JSON
ErrorText == <<Other("text")>>

\* the wrapper without its try: the error of the service leaves it
generate_response_Reraise(outcome) == outcome

\* llm.generate_response (llmGoogle.py lines 17-23) for the outcome of
\* chat.send_message: the text of the response, or the text made of the error
generate_response(outcome) ==
    IF outcome.raised THEN [raised |-> FALSE, text |-> ErrorText] ELSE outcome

\* lines 1589-1606 when the reasoning service raises a service error: the
\* loop parses what the wrapper returned; what leaves the wrapper is caught
\* at line 1671
ReplyError(h) ==
    /\ hs[h].pc = "loop"
    /\ ~session.action_done /\ session.retry_count < MAX_RETRIES
    /\ LET r == generate_response([raised |-> TRUE, text |-> <<>>])
       IN  /\ IF r.raised
              THEN Fail(h, session, browser)
              ELSE /\ Malformed(r.text)
                   /\ session' = [session EXCEPT !.retry_count = @ + 1]
                   /\ response' = NoResponse
                   /\ UNCHANGED <<browser, hs>>
           /\ reply' = [asked |-> TRUE, text |-> r.text, error |-> TRUE]
    /\ UNCHANGED <<sessions, created, bound, legacy, dom, chat, tabs, executor, wait, cl>>

\* lines 1608-1613: the reply decodes to a command, which is executed; an
\* exception of the parser would be caught at line 1671
ReplyCommand(h) ==
    /\ hs[h].pc = "loop"
    /\ ~session.action_done /\ session.retry_count < MAX_RETRIES
    /\ \E t \in CommandTexts :
          LET r == parse_javascript_response(t)
              c == CommandOf(r.command_dict)
          IN  /\ IF r.raised THEN Fail(h, session, browser)
                 ELSE /\ c.action = "unknown" \/ HasRoom(session)
                      /\ Issue(h, c)
              /\ reply' = [asked |-> TRUE, text |-> t, error |-> FALSE]
    /\ UNCHANGED <<sessions, created, bound, legacy, dom, chat, tabs, executor, wait, cl>>

\* the context that holds open page p
ContextOf(p) == CHOOSE c \in browser.open : p \in Range(browser.pages[c])

\* a page-directed command in flight opens a new tab: the browser adds the
\* page to the context and emits the context's "page" event
Popup(h) ==
    /\ hs[h].pc = "w_exec" /\ hs[h].cmd = "click"
    /\ ~Busy
    /\ ~is_closed(hs[h].page)
    /\ browser.npages < bound.pages
    /\ LET c == ContextOf(hs[h].page)
           q == browser.npages + 1
       IN  /\ browser' = [browser EXCEPT !.npages = q, !.pages[c] = Append(@, q)]
           /\ session' = EmitPage(session, browser, c, q)
    /\ response' = NoResponse
    /\ UNCHANGED <<sessions, created, bound, legacy, dom, chat, tabs, executor, wait, hs, cl>>
    /\ reply' = NoReply

\* a close_tab that promotes a page whether or not the closed one was current
AfterCloseTab_AlwaysPromote(h, b) ==
    LET me == hs[h]
        still_open == UNION {Range(b.pages[c]) : c \in b.open}
        remaining == FilterSeq(me.open, still_open \ {me.target})
    IN  IF remaining # <<>>
        THEN /\ session' = [session EXCEPT !.page = remaining[1]]
             /\ browser' = b
             /\ Await(h, [me EXCEPT !.pc = "w_front", !.target = remaining[1]])
        ELSE Succeed(h, me, session, b)

\* a close_tab that promotes the last remaining page, not the first
AfterCloseTab_PromoteLast(h, b) ==
    LET me == hs[h]
        still_open == UNION {Range(b.pages[c]) : c \in b.open}
        exclude == IF me.tab_index = None THEN session.page ELSE me.target
        remaining == FilterSeq(me.open, still_open \ {exclude})
    IN  IF (me.tab_index = None \/ me.was_current) /\ remaining # <<>>
        THEN /\ session' = [session EXCEPT !.page = remaining[Len(remaining)]]
             /\ browser' = b
             /\ Await(h, [me EXCEPT !.pc = "w_front",
                                    !.target = remaining[Len(remaining)]])
        ELSE Succeed(h, me, session, b)

\* the "page" event of an open page is delivered once more while a
\* page-directed command is in flight
PopupAgain(h) ==
    /\ hs[h].pc = "w_exec" /\ hs[h].cmd = "click"
    /\ ~Busy
    /\ \E c \in browser.open : \E q \in Range(browser.pages[c]) :
          session' = EmitPage(session, browser, c, q)
    /\ response' = NoResponse
    /\ UNCHANGED <<sessions, created, bound, legacy, dom, chat, tabs, executor, wait, browser, hs, cl>>
    /\ reply' = NoReply

\* TabManager.close_tab after `await ....close()`: lines 517-523 and 536-544
AfterCloseTab(h, b) ==
    LET me == hs[h]
        still_open == UNION {Range(b.pages[c]) : c \in b.open}
        exclude == IF me.tab_index = None THEN session.page ELSE me.target
        remaining == FilterSeq(me.open, still_open \ {exclude})
    IN  IF (me.tab_index = None \/ me.was_current) /\ remaining # <<>>
        THEN /\ session' = [session EXCEPT !.page = remaining[1]]
             /\ browser' = b
             /\ Await(h, [me EXCEPT !.pc = "w_front", !.target = remaining[1]])
        ELSE Succeed(h, me, session, b)

\* a close_other_tabs that counts the closes it called, not those that worked
AfterCloseOthers_CountCalls(h, failed) ==
    LET me == hs[h]
        others == {p \in Range(me.open) : p # me.target /\ ~is_closed(p)}
        b2 == ClosePages(browser, others \ failed)
    IN  Succeed(h, [me EXCEPT !.count = Cardinality(others)],
                Prune(session, b2), b2)

\* TabManager.close_other_tabs after its closes: lines 563-577; the closes of
\* the pages in failed raised
AfterCloseOthers(h, failed) ==
    LET me == hs[h]
        others == {p \in Range(me.open) : p # me.target /\ ~is_closed(p)}
        b2 == ClosePages(browser, others \ failed)
    IN  Succeed(h, [me EXCEPT !.count = Cardinality(others \ failed)],
                Prune(session, b2), b2)

\* the driver call of the command in flight returned or raised
ResumeExec(h) ==
    /\ hs[h].pc = "w_exec"
    /\ ~Busy
    /\ UNCHANGED <<sessions, created, bound, legacy, dom, chat, tabs, executor, wait, cl>>
    /\ CASE hs[h].cmd = "click" ->
              \/ /\ ~is_closed(hs[h].page)
                 /\ Succeed(h, hs[h], session, browser)
              \/ Fail(h, session, browser)
         [] hs[h].cmd = "close_tab" ->
              \/ AfterCloseTab(h, ClosePages(browser, {hs[h].target}))
              \/ Fail(h, session, browser)
         [] hs[h].cmd = "close_other_tabs" ->
              \E failed \in SUBSET {p \in Range(hs[h].open) :
                                      p # hs[h].target /\ ~is_closed(p)} :
                 AfterCloseOthers(h, failed)
         [] OTHER -> FALSE
    /\ reply' = NoReply

\* session.page.bring_to_front() returned or raised: lines 491-499, 521, 541
ResumeFront(h) ==
    /\ hs[h].pc = "w_front"
    /\ ~Busy
    /\ UNCHANGED <<sessions, created, bound, legacy, dom, chat, tabs, executor, wait, cl>>
    /\ \/ /\ ~is_closed(hs[h].target)
          /\ Succeed(h, hs[h], session, browser)
       \/ Fail(h, session, browser)
    /\ reply' = NoReply

\* "No interactive elements found on the page." (line 664) and "Failed to
\* extract page elements." (line 710)
NoInteractive == [kind |-> "no_interactive_elements", count |-> 0]

ExtractFailed == [kind |-> "failed_to_extract", count |-> 0]

Min(a, b) == IF a < b THEN a ELSE b

\* the grounding pass without `elements.slice(0, 50)`
get_page_elements_NoCap(elements, raised) ==
    IF raised THEN ExtractFailed
    ELSE IF elements = 0 THEN NoInteractive
         ELSE [kind |-> "elements", count |-> elements]

\* DOMInspector.get_page_elements on a page with that many visible,
\* described interactive elements, whose page.evaluate raises or not: the
\* listing has one line for each element it was handed
get_page_elements(elements, raised) ==
    IF raised THEN ExtractFailed
    ELSE IF Min(elements, ELEMENT_CAP) = 0 THEN NoInteractive
         ELSE [kind |-> "elements", count |-> Min(elements, ELEMENT_CAP)]

\* page.evaluate raises on a closed page, and where the run has it so
Raises(p) ==
    IF is_closed(p) THEN {TRUE}
    ELSE IF bound.raises THEN BOOLEAN ELSE {FALSE}

\* grounding returned: lines 1654-1669 and 1694-1709
ResumeGround(h) ==
    /\ hs[h].pc = "w_ground"
    /\ ~Busy
    /\ session' = [session EXCEPT !.retry_count = 0]
    /\ IF session.action_done
       THEN Finish(h, "success", "none", session.commands_executed)
       ELSE \E elements \in bound.dom : \E raised \in Raises(hs[h].page) :
              Await(h, [IdleHandler EXCEPT
                          !.pc = "w_settle", !.page = hs[h].page,
                          !.page_elements = get_page_elements(elements, raised),
                          !.dom = [elements |-> elements, raised |-> raised]])
    /\ UNCHANGED <<sessions, created, bound, legacy, dom, chat, tabs, executor, wait, browser, cl>>
    /\ reply' = NoReply

\* line 1709: page.wait_for_timeout returned, or raised on a closed page
ResumeSettle(h) ==
    /\ hs[h].pc = "w_settle"
    /\ ~Busy
    /\ IF is_closed(hs[h].page)
       THEN Finish(h, "exception", "target_closed", <<>>)
       ELSE Continue(h, "loop")
    /\ UNCHANGED <<sessions, created, session, bound, legacy, dom, chat, tabs, executor, wait, browser, cl>>
    /\ reply' = NoReply

\* ------------------------------------------ SessionManager.close_session
\* line 434: del self.sessions[session_id], a KeyError when the id is gone
Del(c) ==
    /\ sessions' = sessions \ {SessionId}
    /\ cl' = [cl EXCEPT ![c].pc = "idle",
                        ![c].out = IF SessionId \in sessions THEN "removed"
                                   ELSE "KeyError"]
    /\ UNCHANGED <<session, browser>>

\* lines 428-432: the context's close, which may raise
AfterMain(c) ==
    IF session.browser_context # NoCtx
    THEN /\ \/ /\ browser' = CloseContext(browser, session.browser_context)
               /\ cl' = [cl EXCEPT ![c].pc = "c_ctx"]
            \/ /\ UNCHANGED browser
               /\ cl' = [cl EXCEPT ![c].pc = "c_ctx", ![c].raised = TRUE]
         /\ UNCHANGED <<sessions, session>>
    ELSE Del(c)

\* lines 421-425: the close of session.page, which may raise
AfterPages(c) ==
    IF session.page # NoPage
    THEN /\ \/ /\ browser' = ClosePages(browser, {session.page})
               /\ cl' = [cl EXCEPT ![c].pc = "c_main"]
            \/ /\ UNCHANGED browser
               /\ cl' = [cl EXCEPT ![c].pc = "c_main", ![c].raised = TRUE]
         /\ UNCHANGED <<sessions, session>>
    ELSE AfterMain(c)

\* a for loop with one try/except around it: the first close that raises
\* ends the loop
CloseCalled_OneTry(all_pages, failed) ==
    LET bad == {i \in 1..Len(all_pages) : all_pages[i] \in failed}
    IN  IF bad = {} THEN Range(all_pages)
        ELSE {all_pages[i] : i \in 1..(CHOOSE i \in bad : \A j \in bad : i <= j)}

\* lines 415-419: the pages of all_pages whose close() the for loop calls
\* when the closes of the pages in failed raise: each call is in its own
\* try/except, so all of them
CloseCalled(all_pages, failed) == Range(all_pages)

\* lines 412-419: the closes of all_pages; those of the pages in failed raise
ClosePagesLoop(c, failed) ==
    LET called == CloseCalled(session.all_pages, failed)
    IN  /\ browser' = ClosePages(browser, called \ failed)
        /\ cl' = [cl EXCEPT ![c] = [IdleCloser EXCEPT
                                       !.pc = "c_pages",
                                       !.ok = (called = Range(session.all_pages)),
                                       !.raised = (failed # {})]]
        /\ UNCHANGED <<sessions, session>>

\* DELETE /session/{id} (after get_session), or the sweep's call for a
\* session whose last activity is older than the timeout (lines 399-405);
\* line 412, then the first await of close_session
CloseStart(c) ==
    /\ cl[c].pc = "idle"
    /\ ~Busy
    /\ SessionId \in sessions
    /\ IF session.all_pages # <<>>
       THEN \E failed \in SUBSET (Range(session.all_pages) \cap OpenPages) :
               ClosePagesLoop(c, failed)
       ELSE AfterPages(c)
    /\ response' = NoResponse
    /\ UNCHANGED <<created, bound, legacy, dom, chat, tabs, executor, wait, hs>>
    /\ reply' = NoReply

\* close_session resumes after one of its awaits
CloseResume(c) ==
    /\ cl[c].pc # "idle"
    /\ ~Busy
    /\ CASE cl[c].pc = "c_pages" -> AfterPages(c)
         [] cl[c].pc = "c_main" -> AfterMain(c)
         [] OTHER -> Del(c)
    /\ response' = NoResponse
    /\ UNCHANGED <<created, bound, legacy, dom, chat, tabs, executor, wait, hs>>
    /\ reply' = NoReply

\* ----------------------------------------- JavaScriptExecutor.click_element
\* the elements of a page: links and others, with or without a target and a
\* rel attribute
Elements ==
    [tagName : {"A", "BUTTON"}, target : {"", "_blank"},
     rel : {"", "nofollow", "noopener"}]

\* element.rel?.includes('noopener'): line 867
HasNoopener(rel) == rel \in {"noopener", "noopener noreferrer"}

\* lines 866-867
alreadyOpensInNewTab(element) ==
    element.tagName = "A"
    /\ (element.target = "_blank" \/ HasNoopener(element.rel))

\* lines 862-906: what the script leaves of the element it resolved and
\* clicked
ScriptClick(element, openInNewTab) ==
    IF element.tagName = "A" /\ openInNewTab /\ ~alreadyOpensInNewTab(element)
    THEN LET originalTarget == element.target
             forced == [element EXCEPT !.target = "_blank",
                                       !.rel = "noopener noreferrer"]
         IN  [forced EXCEPT !.target = originalTarget]
    ELSE element

\* lines 876-879 and 893-896: the events the script delivers to the element
\* it resolved (element.click() delivers a click event)
ScriptEvents == <<"mousedown", "mouseup", "click", "click">>

\* the events of a native click of the driver
NativeEvents == <<"mousedown", "mouseup", "click">>

\* the text chain tried in another order
Chain_LinkFirst(selector_type) ==
    CASE selector_type = "text" -> <<"script", "link", "button", "text">>
      [] selector_type = "css" -> <<"script", "css">>
      [] OTHER -> <<"script">>

\* the attempts of click_element for a selector type, in the order of the
\* code: the script (line 910), then lines 926-956
Chain(selector_type) ==
    CASE selector_type = "text" -> <<"script", "button", "link", "text">>
      [] selector_type = "css" -> <<"script", "css">>
      [] OTHER -> <<"script">>

SelectorTypes == {"css", "xpath", "text"}

\* what an attempt can do: click the element, find none, or raise (the
\* script: page.evaluate raises; a native click: the element is there and
\* the click raises)
Outcomes == {"clicked", "not_found", "error"}

RECURSIVE Tried(_, _)
\* lines 926-956: the native attempts made, each one in the except clause
\* of the one before it
Tried(chain, outcome) ==
    IF chain = <<>> THEN <<>>
    ELSE IF outcome[Head(chain)] = "clicked" THEN <<Head(chain)>>
         ELSE <<Head(chain)>> \o Tried(Tail(chain), outcome)

\* JavaScriptExecutor.click_element on a page whose selector resolves to
\* element (if to anything), for the outcome of each attempt and of the
\* wait of line 924: the element afterwards and the record of the call
click_element(element, selector_type, open_in_new_tab, outcome, wait_raised) ==
    LET chain == Chain(selector_type)
        attempts ==
            IF outcome["script"] = "not_found"
            THEN <<"script">> \o Tried(Tail(chain), outcome)
            ELSE <<"script">>
        last == attempts[Len(attempts)]
        result ==
            CASE outcome["script"] = "error" -> FALSE
              [] outcome["script"] = "clicked" -> ~wait_raised
              [] OTHER -> outcome[last] = "clicked"
    IN  [element |-> IF outcome["script"] = "clicked"
                     THEN ScriptClick(element, open_in_new_tab)
                     ELSE element,
         click |-> [selector_type |-> selector_type,
                    open_in_new_tab |-> open_in_new_tab,
                    attempts |-> attempts,
                    outcomes |-> [i \in 1..Len(attempts) |-> outcome[attempts[i]]],
                    events |-> IF outcome["script"] = "clicked" THEN ScriptEvents
                               ELSE IF outcome[last] = "clicked" THEN NativeEvents
                               ELSE <<>>,
                    wait_raised |-> outcome["script"] = "clicked" /\ wait_raised,
                    result |-> result]]

\* one call of click_element on the page
ClickElement(selector_type, open_in_new_tab) ==
    /\ \E outcome \in [Range(Chain(selector_type)) -> Outcomes] :
       \E wait_raised \in BOOLEAN :
          dom' = click_element(dom.element, selector_type, open_in_new_tab,
                               outcome, wait_raised)
    /\ UNCHANGED <<sessions, created, session, bound, browser, hs, reply, response,
                   cl, legacy, wait, executor, tabs, chat>>

\* ---------------------------------------------- TabManager.get_all_pages
\* the positions (0-based) of the local list pages, from idx on, whose page
\* is not closed in browser b: the `continue` of lines 458-459
Unskipped(b, pages, idx) ==
    {i \in idx..(Len(pages) - 1) :
        \E c \in b.open : pages[i + 1] \in Range(b.pages[c])}

\* the loop of lines 455-472 from position idx of pages: it runs to its end,
\* or up to the `await page.title()` of the next page that is not closed
Enumerate(t, b, pages, idx, page_info) ==
    LET left == Unskipped(b, pages, idx)
    IN  IF left = {}
        THEN [t EXCEPT !.pc = "done", !.pages = pages, !.idx = Len(pages),
                       !.page_info = page_info]
        ELSE [t EXCEPT !.pc = "w_title", !.pages = pages,
                       !.idx = CHOOSE i \in left : \A j \in left : i <= j,
                       !.page_info = page_info]

\* TabManager.get_all_pages(session) up to its first await: lines 446-461
GetAllPages ==
    /\ tabs.pc # "w_title"
    /\ ~Busy
    /\ IF session.browser_context = NoCtx
       THEN /\ tabs' = [NoTabs EXCEPT !.pc = "done"]
            /\ UNCHANGED session
       ELSE /\ session' = [session EXCEPT
                               !.all_pages = FilterSeq(@, OpenPages)]
            /\ tabs' = Enumerate(tabs, browser,
                                 ContextPages(session.browser_context), 0, <<>>)
    /\ UNCHANGED <<sessions, created, bound, browser, hs, reply, response, cl,
                   legacy, dom, wait, executor, chat>>

\* `await page.title()` returns or raises (it raises for a page that was
\* closed meanwhile), and the loop goes on: lines 461-474
TitleReturns ==
    /\ tabs.pc = "w_title"
    /\ ~Busy
    /\ LET page == tabs.pages[tabs.idx + 1]
           entry == [index |-> tabs.idx, page |-> page,
                     is_current |-> page = session.page]
       IN  \E raised \in {is_closed(page), TRUE} :
              tabs' = Enumerate(tabs, browser, tabs.pages, tabs.idx + 1,
                                IF raised THEN tabs.page_info
                                ELSE Append(tabs.page_info, entry))
    /\ UNCHANGED <<sessions, created, session, bound, browser, hs, reply,
                   response, cl, legacy, dom, wait, executor, chat>>

\* a page of the context closes itself (window.close() of its script): it
\* leaves the page list of its context
PageCloses(p) ==
    /\ p \in OpenPages
    /\ ~Busy
    /\ browser' = ClosePages(browser, {p})
    /\ UNCHANGED <<sessions, created, session, bound, hs, reply, response, cl,
                   legacy, dom, wait, executor, tabs, chat>>

\* the page switch_to_tab(session, tab_index) selects in browser b: lines
\* 488-490 (NoPage when the index is out of range)
SwitchSelects(b, s, tab_index) ==
    LET pages == IF s.browser_context \in b.open
                 THEN b.pages[s.browser_context] ELSE <<>>
    IN  IF InRange(tab_index, Len(pages)) THEN PageAt(pages, tab_index)
        ELSE NoPage

\* the page close_tab(session, tab_index) selects in browser b: lines
\* 508-525 (NoPage when the index is out of range)
CloseSelects(b, s, tab_index) ==
    LET pages == IF s.browser_context \in b.open
                 THEN b.pages[s.browser_context] ELSE <<>>
        open_pages == FilterSeq(pages, UNION {Range(b.pages[c]) : c \in b.open})
    IN  IF InRange(tab_index, Len(open_pages)) THEN PageAt(open_pages, tab_index)
        ELSE NoPage

\* ------------------------------------ JavaScriptExecutor.wait_for_element
\* Selector-kind of the commands
SelectorKinds == {"css", "text", "placeholder", "label", "xpath"}

\* `setInterval(..., 100)`: the period of the poll, in milliseconds
POLL_INTERVAL == 100

\* the timeouts of a wait_element command, in milliseconds
Timeouts == {k * POLL_INTERVAL : k \in 0..MaxPolls}

\* lines 1092-1097 of the script: whether the poll resolves an element, for
\* a document that holds (or not) an element the selector means
Resolves(selectorType, present) ==
    selectorType \in {"css", "text"} /\ present

\* execute_command, lines 1379-1382: the call starts the script, whose
\* first poll is one interval away
WaitForElement(selector_type, timeout) ==
    /\ wait.pc # "polling"
    /\ wait' = [wait EXCEPT !.pc = "polling", !.selector_type = selector_type,
                            !.timeout = timeout, !.elapsed = 0,
                            !.raised = FALSE, !.result = FALSE]
    /\ UNCHANGED <<sessions, created, session, bound, browser, hs, reply, response,
                   cl, legacy, dom, executor, tabs, chat>>

\* the page adds an element the selector means to its document
PageAdds ==
    /\ ~wait.present
    /\ wait' = [wait EXCEPT !.present = TRUE]
    /\ UNCHANGED <<sessions, created, session, bound, browser, hs, reply, response,
                   cl, legacy, dom, executor, tabs, chat>>

\* one run of the interval callback, lines 1088-1106, and lines 1110-1111
\* and 1383-1388 when it resolves the promise
Poll ==
    /\ wait.pc = "polling"
    /\ LET elapsed == wait.elapsed + POLL_INTERVAL
       IN  IF Resolves(wait.selector_type, wait.present)
           THEN wait' = [wait EXCEPT !.pc = "done", !.elapsed = elapsed,
                                     !.result = TRUE]
           ELSE IF elapsed > wait.timeout
                THEN wait' = [wait EXCEPT !.pc = "done", !.elapsed = elapsed,
                                          !.result = FALSE]
                ELSE wait' = [wait EXCEPT !.elapsed = elapsed]
    /\ UNCHANGED <<sessions, created, session, bound, browser, hs, reply, response,
                   cl, legacy, dom, executor, tabs, chat>>

\* page.evaluate raises (the page was closed or navigated away): lines
\* 1112-1114
WaitRaises ==
    /\ wait.pc = "polling"
    /\ wait' = [wait EXCEPT !.pc = "done", !.raised = TRUE, !.result = FALSE]
    /\ UNCHANGED <<sessions, created, session, bound, browser, hs, reply, response,
                   cl, legacy, dom, executor, tabs, chat>>

\* ------------------------------------------------- CommandExecutor.execute
\* lines 1185-1191
allowed_methods ==
    {"goto", "click", "fill", "press", "wait_for_timeout", "wait_for_load_state",
     "wait_for_selector", "get_by_role", "get_by_text", "get_by_label", "locator",
     "keyboard", "wait_for", "is_visible", "is_enabled", "count", "first", "last",
     "nth", "filter", "accessibility"}

\* methods of a page that a command string names: two of the list, two not
PageMethods == {"click", "locator", "close", "set_default_timeout"}

\* a command string: whether it starts with 'page.', and the page methods
\* its expression invokes, in the order of the text; after 'page.' the first
\* of them is the name before the first '(' (`page.locator('a').page.close()`
\* invokes locator, then close)
CommandStrings ==
    [page_prefix : BOOLEAN,
     methods : UNION {[1..k -> PageMethods] : k \in 0..MaxCalls}]

\* `command.split('(')[0].split('.')[1]`, line 1198, of a command that
\* starts with 'page.'
method_name(command) ==
    IF command.methods = <<>> THEN "" ELSE command.methods[1]

\* lines 1194-1200: the command passes the security check
Allowed(command) ==
    /\ command.page_prefix
    /\ method_name(command) # ""
    /\ method_name(command) \in allowed_methods

\* CommandExecutor.execute(page, command): ValueError of lines 1195 and 1200,
\* or eval of lines 1216-1221, which invokes the methods one after the other
\* until one of them raises (failed is the number of the one that does)
Execute(command) ==
    /\ IF ~Allowed(command)
       THEN executor' = [command |-> command, invoked |-> <<>>,
                         raised |-> "ValueError"]
       ELSE \E failed \in 1..(Len(command.methods) + 1) :
               executor' =
                   [command |-> command,
                    invoked |-> SubSeq(command.methods, 1,
                                       Min(failed, Len(command.methods))),
                    raised |-> IF failed <= Len(command.methods)
                               THEN "Exception" ELSE "none"]
    /\ UNCHANGED <<sessions, created, session, bound, browser, hs, reply, response,
                   cl, legacy, dom, wait, tabs, chat>>

\* ------------------------------------------ llmPerplexity.generate_response
\* the user prompts of the calls
Prompts == {"goal", "hint"}

\* llm.generate_response(user_prompt): lines 15-36; raised: the API call of
\* line 21 or the access of line 27 raises
PerplexityResponse(user_prompt, raised) ==
    /\ Len(chat.messages) < 1 + MaxMessages
    /\ LET asked == Append(chat.messages,
                           [role |-> "user", content |-> user_prompt])
       IN  IF raised
           THEN chat' = [messages |-> asked, returned |-> "error"]
           ELSE chat' = [messages |-> Append(asked, [role |-> "assistant",
                                                    content |-> "reply"]),
                         returned |-> "reply"]
    /\ UNCHANGED <<sessions, created, session, bound, browser, hs, reply, response,
                   cl, legacy, dom, wait, executor, tabs>>

\* ------------------------------------------------------------- server.py
\* the ids uuid4 hands out
LegacyIds == {"a", "b"}

\* The first non-blank line of a reply, by what eval makes of it: there is
\* none ("blank"), it is no Python expression ("syntax_error"), it is a call
\* of a coroutine method of page ("page_call"), or it is any other
\* expression ("code"); await: the line holds the word await
LegacyLines == [await : BOOLEAN, kind : {"blank", "syntax_error", "page_call", "code"}]

\* lines 85-86: command_line.replace("await", "").strip()
StripAwait(line) == [line EXCEPT !.await = FALSE]

\* the session record of create_session, lines 16-21; streak is history: the
\* interactions on the session that failed since the last one that succeeded
LegacySession ==
    [page |-> NoPage, commands_executed |-> <<>>, retry_count |-> 0, streak |-> 0]

\* the function f without x in its domain: del d[x]
Without(f, x) == [y \in DOMAIN f \ {x} |-> f[y]]

\* the function f with x mapped to v: d[x] = v
With(f, x, v) == [y \in DOMAIN f \cup {x} |-> IF y = x THEN v ELSE f[y]]

\* the process of the current server takes no step
ServerUnchanged ==
    UNCHANGED <<sessions, created, session, bound, browser, hs, reply, response, cl,
                dom, wait, executor, tabs, chat>>

\* server.py POST /start_session: lines 47-49 and 14-22
LegacyStartSession ==
    /\ \E id \in LegacyIds \ legacy.issued :
          legacy' = [legacy EXCEPT
                        !.sessions = With(@, id, LegacySession),
                        !.issued = @ \cup {id},
                        !.evaluated = "none",
                        !.response = LegacyNoResponse]
    /\ ServerUnchanged

\* what a driver call of interact_command outside the evaluation can do:
\* nothing, or browser.new_page() (line 29), page.content() (line 62) or the
\* page.close() of the teardown (line 105) raises
LegacyFaults == {"none", "new_page", "content", "close"}

\* an exception leaves interact_command: the framework answers 500
LegacyError(l, id) ==
    [l EXCEPT !.sessions[id].streak = @ + 1,
              !.response = [status |-> "500", retries_left |-> 0]]

\* lines 100-116: the except branch of interact_command, for the state l in
\* which session id has page p
LegacyFail(l, id, p, fault) ==
    LET count == l.sessions[id].retry_count + 1
        counted == [l EXCEPT !.sessions[id].retry_count = count]
    IN  IF count >= LegacyRetries
        THEN IF fault = "close"
             THEN LegacyError(counted, id)
             ELSE [l EXCEPT !.open = @ \ {p},
                            !.sessions = Without(@, id),
                            !.response = [status |-> "failed", retries_left |-> 0]]
        ELSE [counted EXCEPT !.sessions[id].streak = @ + 1,
                             !.response = [status |-> "retry",
                                           retries_left |-> LegacyRetries - count]]

\* server.py POST /interact/{session_id}, for the reply whose first non-blank
\* line is line; ok: the coroutine of a page call returns (it raises
\* otherwise); fault: the driver call outside the evaluation that raises.
\* _llm is the wrapper server.py is written for, made by llm() and asked by
\* generate_response(system_prompt, message), which returns a reply text.
LegacyInteract(id, line, ok, fault) ==
    /\ IF id \notin DOMAIN legacy.sessions
       THEN legacy' = [legacy EXCEPT !.evaluated = "none",
                          !.response = [status |-> "404", retries_left |-> 0]]
       ELSE /\ legacy.sessions[id].streak < LegacyStreak
            /\ LET fresh == legacy.sessions[id].page = NoPage
                   p == IF fresh THEN legacy.npages + 1 ELSE legacy.sessions[id].page
                   l == IF fresh
                        THEN [legacy EXCEPT !.npages = p, !.open = @ \cup {p},
                                            !.sessions[id].page = p]
                        ELSE legacy
                   command_line == StripAwait(line)
               IN  CASE fresh /\ fault = "new_page" ->
                           legacy' = [LegacyError(legacy, id) EXCEPT !.evaluated = "none"]
                     [] fault = "content" ->
                           legacy' = [LegacyError(l, id) EXCEPT !.evaluated = "none"]
                     [] line.kind \in {"blank", "syntax_error"} ->
                           legacy' = [LegacyFail(l, id, p, fault) EXCEPT
                                         !.evaluated = "none"]
                     [] line.kind = "code" ->
                           legacy' = [LegacyFail(l, id, p, fault) EXCEPT
                                         !.evaluated = "code"]
                     [] line.kind = "page_call" /\ ~ok ->
                           legacy' = [LegacyFail(l, id, p, fault) EXCEPT
                                         !.evaluated = "page_call"]
                     [] OTHER ->
                           /\ Len(l.sessions[id].commands_executed) < LegacyLog
                           /\ legacy' = [l EXCEPT
                                 !.sessions[id].commands_executed = Append(@, command_line),
                                 !.sessions[id].retry_count = 0,
                                 !.sessions[id].streak = 0,
                                 !.evaluated = "page_call",
                                 !.response = [status |-> "continue", retries_left |-> 0]]
    /\ ServerUnchanged

\* server.py POST /end_session/{session_id}: lines 118-123; the page of a
\* session without an interaction is None, and None has no close; fault: the
\* page.close() of line 121 raises
LegacyEndSession(id, fault) ==
    /\ IF id \notin DOMAIN legacy.sessions
       THEN legacy' = [legacy EXCEPT !.evaluated = "none",
                          !.response = [status |-> "session closed", retries_left |-> 0]]
       ELSE IF legacy.sessions[id].page = NoPage
       THEN legacy' = [legacy EXCEPT !.evaluated = "none",
                          !.response = [status |-> "AttributeError", retries_left |-> 0]]
       ELSE IF fault = "close"
       THEN legacy' = [legacy EXCEPT !.evaluated = "none",
                          !.response = [status |-> "500", retries_left |-> 0]]
       ELSE legacy' = [legacy EXCEPT
                          !.open = @ \ {legacy.sessions[id].page},
                          !.sessions = Without(@, id),
                          !.evaluated = "none",
                          !.response = [status |-> "session closed", retries_left |-> 0]]
    /\ ServerUnchanged

\* ----------------------------------------------------- the specifications
\* one step the server takes for the /interact request h: a reply of the
\* reasoning service, or a driver call that returns or raises
RunStep(h) ==
    \/ ResumeContext(h)
    \/ ResumePage(h)
    \/ LoopExit(h)
    \/ ReplyCompleted(h)
    \/ ReplyMalformed(h)
    \/ ReplyError(h)
    \/ ReplyCommand(h)
    \/ ResumeExec(h)
    \/ ResumeFront(h)
    \/ ResumeGround(h)
    \/ ResumeSettle(h)

\* one step of the /interact request h, its arrival and the browser's
\* popups included
HandlerStep(h) ==
    \/ Intake(h)
    \/ Popup(h)
    \/ PopupAgain(h)
    \/ RunStep(h)

\* Spec: the goals of a session are submitted one after the other
Next ==
    \/ \E m \in Modes : StartSession(m)
    \/ HandlerStep("h1")

Spec == Init /\ [][Next]_vars

\* SpecOverlap: two /interact requests on the session may overlap.  The
\* requests are interchangeable, so "h2" names the one that arrives while
\* another is being served.
NextOverlap ==
    \/ \E m \in Modes : StartSession(m)
    \/ HandlerStep("h1")
    \/ /\ hs["h1"].pc # "idle" \/ hs["h2"].pc # "idle"
       /\ HandlerStep("h2")

InitOverlap == InitBounded([pages |-> OverlapPages, log |-> OverlapLog, saturate |-> FALSE, full |-> FALSE, text |-> <<>>, dom |-> {1}, raises |-> FALSE,
                 elements |-> {PlainElement}])

SpecOverlap == InitOverlap /\ [][NextOverlap]_vars

\* SpecTeardown: the goals of a session and one call of
\* SessionManager.close_session, by DELETE /session or by the idle sweep
NextTeardown ==
    \/ \E m \in Modes : StartSession(m)
    \/ HandlerStep("h1")
    \/ \E c \in Closers :
          /\ \A d \in Closers \ {c} : cl[d] = IdleCloser
          /\ \/ CloseStart(c)
             \/ CloseResume(c)

InitTeardown == InitBounded([pages |-> TeardownPages, log |-> TeardownLog, saturate |-> FALSE, full |-> FALSE, text |-> <<>>, dom |-> {1}, raises |-> FALSE,
                 elements |-> {PlainElement}])

SpecTeardown == InitTeardown /\ [][NextTeardown]_vars

\* SpecClosers: the goals of a session, and the calls of
\* SessionManager.close_session by DELETE /session and by the idle sweep,
\* which may overlap at their awaits
NextClosers ==
    \/ \E m \in Modes : StartSession(m)
    \/ Intake("h1")
    \/ RunStep("h1")
    \/ \E c \in Closers : CloseStart(c)
    \/ \E c \in Closers : CloseResume(c)

InitClosers ==
    InitBounded([pages |-> ClosersPages, log |-> ClosersLog, saturate |-> FALSE,
                 full |-> FALSE, text |-> <<>>, dom |-> {1}, raises |-> FALSE,
                 elements |-> {PlainElement}])

SpecClosers == InitClosers /\ [][NextClosers]_vars

\* SpecLive: Spec with a log that stops growing when it is full (so that a
\* run of any length is within the bounds), and the scheduling of the event
\* loop: a reply or a driver call that is due is eventually delivered
InitLive == InitBounded([pages |-> LivePages, log |-> LiveLog, saturate |-> TRUE, full |-> FALSE, text |-> <<>>, dom |-> {1}, raises |-> FALSE,
                 elements |-> {PlainElement}])

SpecLive == InitLive /\ [][Next]_vars /\ WF_vars(RunStep("h1"))

\* SpecParse: Spec for a reasoning service that replies one text, of any
\* shape, to every request of the run
InitParse ==
    \E t \in AllTexts :
        InitBounded([pages |-> ParsePages, log |-> ParseLog, saturate |-> FALSE,
                     full |-> TRUE, text |-> t, dom |-> {1}, raises |-> FALSE,
                 elements |-> {PlainElement}])

SpecParse == InitParse /\ [][Next]_vars

\* SpecReentry: SpecOverlap for pages that open no new tab and a reasoning
\* service that replies one text to every request of the run
NextReentry ==
    \/ \E m \in Modes : StartSession(m)
    \/ Intake("h1")
    \/ RunStep("h1")
    \/ /\ hs["h1"].pc # "idle" \/ hs["h2"].pc # "idle"
       /\ \/ Intake("h2")
          \/ RunStep("h2")

InitReentry ==
    \E t \in PlainTexts[ReentryPages] :
        InitBounded([pages |-> ReentryPages, log |-> ReentryLog, saturate |-> FALSE,
                     full |-> TRUE, text |-> t, dom |-> {1}, raises |-> FALSE,
                     elements |-> {PlainElement}])

SpecReentry == InitReentry /\ [][NextReentry]_vars

\* the numbers of qualifying elements of a page
DomSizes == {0, 1, ELEMENT_CAP, ELEMENT_CAP + Excess}

\* SpecGround: Spec for pages of every size, whose extraction may raise
InitGround ==
    InitBounded([pages |-> GroundPages, log |-> GroundLog, saturate |-> FALSE,
                 full |-> FALSE, text |-> <<>>, dom |-> DomSizes, raises |-> TRUE,
                 elements |-> {PlainElement}])

SpecGround == InitGround /\ [][Next]_vars

\* SpecClick: calls of click_element on a page with one element, of any kind
NextClick ==
    \E selector_type \in SelectorTypes : \E open_in_new_tab \in BOOLEAN :
       ClickElement(selector_type, open_in_new_tab)

InitClick ==
    InitBounded([pages |-> MaxPages, log |-> MaxLog, saturate |-> FALSE,
                 full |-> FALSE, text |-> <<>>, dom |-> {1}, raises |-> FALSE,
                 elements |-> Elements])

SpecClick == InitClick /\ [][NextClick]_vars

\* SpecWait: wait_element commands on a page that may add the element
NextWait ==
    \/ \E selector_type \in SelectorKinds : \E timeout \in Timeouts :
          WaitForElement(selector_type, timeout)
    \/ PageAdds
    \/ Poll
    \/ WaitRaises

SpecWait == Init /\ [][NextWait]_vars

\* SpecExecute: calls of CommandExecutor.execute, one after the other
NextExecute == \E command \in CommandStrings : Execute(command)

SpecExecute == Init /\ [][NextExecute]_vars

\* SpecTabs: get_all_pages calls on a session whose context holds some
\* pages, which may close themselves
NextTabs ==
    \/ GetAllPages
    \/ TitleReturns
    \/ \E p \in 1..TabPages : PageCloses(p)

InitTabs ==
    /\ bound = [pages |-> TabPages, log |-> 0, saturate |-> FALSE, full |-> FALSE,
                text |-> <<>>, dom |-> {1}, raises |-> FALSE,
                elements |-> {PlainElement}]
    /\ sessions = {SessionId}
    /\ created = TRUE
    /\ \E n \in 1..TabPages : \E current \in 1..n :
          /\ session = [NewSession EXCEPT !.browser_context = 1, !.page = current,
                                          !.all_pages = [i \in 1..n |-> i],
                                          !.llm = TRUE]
          /\ browser = [pages |-> [c \in Contexts |->
                                      IF c = 1 THEN [i \in 1..n |-> i] ELSE <<>>],
                        open |-> {1}, nctx |-> 1, npages |-> n, listeners |-> {1}]
    /\ hs = [h \in Handlers |-> IdleHandler]
    /\ reply = NoReply
    /\ response = NoResponse
    /\ cl = [c \in Closers |-> IdleCloser]
    /\ legacy = LegacyInit
    /\ dom = [element |-> PlainElement, click |-> NoClick]
    /\ wait = NoWait
    /\ executor = NoExecution
    /\ tabs = NoTabs
    /\ chat = NoChat

SpecTabs == InitTabs /\ [][NextTabs]_vars

\* SpecChat: generate_response calls on one Perplexity conversation
NextChat ==
    \E user_prompt \in Prompts : \E raised \in BOOLEAN :
       PerplexityResponse(user_prompt, raised)

SpecChat == Init /\ [][NextChat]_vars

\* a line that holds a fence marker and nothing else
FenceLine == Fenced(Other("blank"))

\* the lines of a reply with fence markers: a marker on a line of its own,
\* a command or the completed command with or without markers on its line,
\* and a hint
MarkedLines ==
    {FenceLine, Other("text"), Object("click", None), Fenced(Object("click", None)),
     Object("switch_tab", 0), Object("completed", None),
     Fenced(Object("completed", None))}

FenceTexts == UNION {[1..k -> MarkedLines] : k \in 1..FenceLines}

\* SpecFence: Spec for a reasoning service that replies one text with or
\* without fence markers to every request of the run
InitFence ==
    \E t \in FenceTexts :
        InitBounded([pages |-> FencePages, log |-> FenceLog, saturate |-> FALSE,
                     full |-> TRUE, text |-> t, dom |-> {1}, raises |-> FALSE,
                     elements |-> {PlainElement}])

SpecFence == InitFence /\ [][Next]_vars

\* SpecLegacy: the requests of the clients of server.py, one at a time
NextLegacy ==
    \/ LegacyStartSession
    \/ \E id \in LegacyIds : \E line \in LegacyLines : \E ok \in BOOLEAN :
       \E fault \in LegacyFaults : LegacyInteract(id, line, ok, fault)
    \/ \E id \in LegacyIds : \E fault \in {"none", "close"} :
          LegacyEndSession(id, fault)

SpecLegacy == Init /\ [][NextLegacy]_vars

\* --------------------------------------------------------- the properties
\* the pcs of a handler whose while loop (lines 1586-1709) is running
LoopPcs == {"loop", "w_exec", "w_front", "w_ground", "w_settle"}

\* the step ends the invocation of h with an InteractResponse
Returned(h) ==
    /\ hs[h].pc \in LoopPcs
    /\ hs'[h].pc = "idle"
    /\ response'.handler = h
    /\ response'.status \in {"success", "failure"}

\* C1: an invocation that stops with the retry counter at max_retries
\* returns status failure, with the action log and an error text
C1_ExhaustionReturnsFailure ==
    (response.status \in {"success", "failure"}
        /\ session.retry_count >= MAX_RETRIES)
    => /\ response.status = "failure"
       /\ response.error # "none"
       /\ response.commands_executed = session.commands_executed

\* the step reports the failure of the command h executed (lines 1615, 1671)
ExecFailed(h) ==
    /\ hs[h].pc \in {"loop", "w_exec", "w_front"}
    /\ hs'[h].pc = "w_settle" \/ (hs'[h].pc = "idle" /\ response'.status = "failure")

\* C2: the retry counter is zero after a successful action and one more
\* after a malformed reply or an execution failure, and the invocation ends
\* with status failure exactly when the counter reaches max_retries
C2_RetryCounter ==
    [][\A h \in Handlers :
          /\ (hs[h].pc = "loop" /\ reply'.asked /\ Malformed(reply'.text))
                => session'.retry_count = session.retry_count + 1
          /\ ExecFailed(h) => session'.retry_count = session.retry_count + 1
          /\ (hs[h].pc = "w_ground" /\ hs'[h].pc # "w_ground")
                => session'.retry_count = 0
          /\ (Returned(h) /\ response'.status = "failure")
                => session'.retry_count = MAX_RETRIES
          /\ (Returned(h) /\ session'.retry_count >= MAX_RETRIES)
                => response'.status = "failure"
          /\ (hs'[h].pc \in LoopPcs /\ session'.retry_count >= MAX_RETRIES)
                => (hs'[h].pc = "loop" /\ session'.retry_count = MAX_RETRIES)
    ]_vars

\* C3: a reply that parses to Completed sets the completion flag and ends
\* the invocation with status success at once, whatever the retry counter
C3_CompletedStopsLoop ==
    (reply.asked /\ parse_javascript_response(reply.text).is_completed)
    => /\ session.action_done
       /\ response.status = "success"
       /\ response.handler \in Handlers
       /\ hs[response.handler].pc = "idle"

C3_Witness ==
    /\ reply.asked /\ parse_javascript_response(reply.text).is_completed
    /\ response.status = "success"
    /\ session.retry_count > 0
    /\ session.commands_executed # <<>>

\* C4: at no time are two commands of the session in flight
C4_OneCommandInFlight == Cardinality(InFlight) <= 1

\* C5: close_session is never at work on the session while the loop of a
\* goal invocation on it is running
C5_NoTeardownDuringLoop ==
    \A c \in Closers : \A h \in Handlers :
        ~(cl[c].pc # "idle" /\ hs[h].pc \in LoopPcs)

\* C6: a command applied to the page, and a grounding pass, use the page
\* that is the session's active page at that moment
C6_ActsOnActivePage ==
    \A h \in Handlers :
        ((hs[h].pc = "w_exec" /\ hs[h].cmd = "click") \/ hs[h].pc = "w_ground")
        => hs[h].page = session.page

\* C7: every goal invocation eventually terminates (in Completed or Failed)
C7_EveryInvocationTerminates ==
    \A h \in Handlers : (hs[h].pc # "idle") ~> (hs[h].pc = "idle")

C9_ActivePageTracked ==
    /\ (session.page # NoPage /\ session.all_pages # <<>>)
          => session.page \in Range(session.all_pages)
    /\ Cardinality({p \in OpenPages : p = session.page}) <= 1

\* C10: when a tab command (switch_tab, close_tab, close_other_tabs) reports
\* failure, the open pages and the active page are those of before the call
C10_NoPartialEffect ==
    [][\A h \in Handlers :
          (ExecFailed(h) /\ hs[h].pc \in {"w_exec", "w_front"}
              /\ hs[h].cmd \in {"switch_tab", "close_tab", "close_other_tabs"})
          => /\ session'.page = hs[h].before.page
             /\ OpenPages' = hs[h].before.open
    ]_vars

\* the command the loop executes for the reply of the step, if it is one
Issued(h, action) ==
    /\ hs[h].pc = "loop"
    /\ reply'.asked
    /\ ~Malformed(reply'.text) /\ ~Completed(reply'.text)
    /\ CommandOf(parse_javascript_response(reply'.text).command_dict).action = action

\* C11: switch_tab resolves its index against the live page list of the
\* context at the call; an index outside 0..len-1 gives a failure that is not
\* raised and leaves the active page as it is, an index inside makes the
\* page at that index the active page
C11_SwitchTabIndex ==
    [][\A h \in Handlers :
          Issued(h, "switch_tab")
          => LET c == CommandOf(parse_javascript_response(reply'.text).command_dict)
                 i == IF c.tab_index = None THEN 0 ELSE c.tab_index
                 pages == ContextPages(session.browser_context)
             IN  IF 0 <= i /\ i < Len(pages)
                 THEN session'.page = pages[i + 1]
                 ELSE /\ session'.page = session.page
                      /\ ExecFailed(h)
                      /\ response'.status # "exception"
    ]_vars

C11_Witness ==
    /\ reply.asked
    /\ reply.text = <<Object("switch_tab", -1)>>
    /\ hs["h1"].pc = "w_settle"
    /\ Len(ContextPages(session.browser_context)) >= 2
    /\ session.page = ContextPages(session.browser_context)[2]

\* the close() of the close_tab in flight returned
TabClosed(h) ==
    /\ hs[h].pc = "w_exec" /\ hs[h].cmd = "close_tab"
    /\ hs'[h].pc \in {"w_front", "w_ground"}

\* C12: close_tab with an index closes the page at that index of the live
\* list of open pages, and no other, and leaves the active page as it is
\* when the closed page was not the active one
C12_CloseTabIndex ==
    [][\A h \in Handlers :
          /\ Issued(h, "close_tab") /\ hs'[h].pc = "w_exec" /\ hs'[h].tab_index # None
                => LET live == FilterSeq(ContextPages(session.browser_context), OpenPages)
                   IN  /\ hs'[h].tab_index \in 0..(Len(live) - 1)
                       /\ hs'[h].target = live[hs'[h].tab_index + 1]
                       /\ UNCHANGED <<session, browser>>
          /\ TabClosed(h) /\ hs[h].tab_index # None
                => /\ OpenPages' = OpenPages \ {hs[h].target}
                   /\ hs[h].target # session.page => session'.page = session.page
    ]_vars

C12_Witness ==
    /\ hs["h1"].pc = "w_ground" /\ hs["h1"].cmd = "close_tab"
    /\ hs["h1"].tab_index = 0
    /\ hs["h1"].before = [page |-> 2, open |-> {1, 2, 3}]
    /\ hs["h1"].target = 1
    /\ OpenPages = {2, 3}
    /\ session.page = 2

\* C13: close_tab without an index closes the current page and makes the
\* first remaining open page the active page, if there is one; close_tab with
\* an index changes the active page only when it closed the active page, and
\* then to the first remaining open page
C13_CloseTabPromotes ==
    [][\A h \in Handlers :
          TabClosed(h)
          => LET me == hs[h]
                 remaining == FilterSeq(me.open, OpenPages' \ {me.target})
                 promote == remaining # <<>>
                            /\ (me.tab_index = None \/ me.target = session.page)
             IN  /\ me.tab_index = None => me.target = me.before.page
                 /\ me.target \notin OpenPages'
                 /\ session'.page = IF promote THEN remaining[1] ELSE session.page
    ]_vars

C13_Witness ==
    /\ hs["h1"].pc = "w_front" /\ hs["h1"].cmd = "close_tab"
    /\ hs["h1"].tab_index = None
    /\ hs["h1"].before = [page |-> 2, open |-> {1, 2, 3}]
    /\ OpenPages = {1, 3}
    /\ session.page = 1

\* close_other_tabs has returned to the loop, which is about to ground
OthersClosed(h) == hs[h].pc = "w_ground" /\ hs[h].cmd = "close_other_tabs"

Count(list, p) == Cardinality({i \in 1..Len(list) : list[i] = p})

\* C15: every open page of the session's context is in the tracked page
\* list exactly once, and no page is in it twice, however often its "page"
\* event was delivered
C15_TrackedExactlyOnce ==
    /\ \A p \in Range(ContextPages(session.browser_context)) :
          Count(session.all_pages, p) = 1
    /\ \A p \in Range(session.all_pages) : Count(session.all_pages, p) = 1

\* the text has no non-blank line, or its first non-blank line without the
\* fence is no JSON object: nothing, no JSON, an array, a scalar
NoObject(text) ==
    \/ NonBlank(text) = <<>>
    \/ NonBlank(text)[1].kind \in {"blank", "text", "array", "scalar", "null"}

\* C16: for a reply text that is empty, blank, no JSON or JSON that is no
\* object the parser returns (None, None, False) and raises nothing, and the
\* loop handles the reply as malformed: one more retry, nothing executed,
\* nothing logged, no settling delay
C16_ParserNeverRaises ==
    [][\A h \in Handlers :
          (hs[h].pc = "loop" /\ reply'.asked /\ NoObject(reply'.text))
          => /\ parse_javascript_response(reply'.text) = NoneResult
             /\ session'.retry_count = session.retry_count + 1
             /\ session'.commands_executed = session.commands_executed
             /\ hs' = hs
             /\ browser' = browser]_vars

C16_Witness ==
    /\ reply.asked /\ Len(reply.text) = 2
    /\ IsBlank(reply.text[1])
    /\ reply.text[2].kind = "array" /\ reply.text[2].fence
    /\ session.retry_count = 2
    /\ session.commands_executed = <<>>

\* the first non-blank line of the text is a JSON object that is no command
\* of the vocabulary: its action is unknown, or it has none
NoCommand(text) ==
    /\ ~NoObject(text)
    /\ NonBlank(text)[1].action \notin Vocabulary

\* C17: a reply whose first line is a JSON object with an unknown action or
\* without an action is rejected by the parser, which returns
\* (None, None, False), and the loop handles it as a malformed reply:
\* nothing is handed to the executor
C17_UnknownActionRejected ==
    [][\A h \in Handlers :
          (hs[h].pc = "loop" /\ reply'.asked /\ NoCommand(reply'.text))
          => /\ parse_javascript_response(reply'.text) = NoneResult
             /\ session'.retry_count = session.retry_count + 1
             /\ hs' = hs]_vars

\* C19: an invocation whose loop is running ends with an InteractResponse:
\* a status success or failure, the action log and, on failure, an error
\* text; no exception leaves the handler
C19_NoExceptionEscapes ==
    [][\A h \in Handlers :
          (hs[h].pc \in LoopPcs /\ hs'[h].pc = "idle")
          => /\ response'.handler = h
             /\ response'.status \in {"success", "failure"}
             /\ response'.commands_executed = session'.commands_executed
             /\ response'.status = "failure" => response'.error # "none"]_vars

\* the step is the success of the command h executed (line 1613 returned
\* True): the handler goes on to the log and the grounding
ExecSucceeded(h) ==
    /\ hs[h].pc \in {"loop", "w_exec", "w_front"}
    /\ hs'[h].pc = "w_ground"

\* C20: commands_executed grows by exactly the command that succeeded, in the
\* step of its success, and changes in no other step: a failed command and a
\* malformed reply leave it as it is, nothing is ever dropped from it, and
\* the response of an invocation carries it
C20_LogIsSuccessfulCommands ==
    [][/\ \A h \in Handlers :
            /\ ExecSucceeded(h)
                 => session'.commands_executed
                        = Append(session.commands_executed, hs'[h].cmd)
            /\ ExecFailed(h)
                 => session'.commands_executed = session.commands_executed
            /\ (hs[h].pc = "loop" /\ reply'.asked /\ Malformed(reply'.text))
                 => session'.commands_executed = session.commands_executed
            /\ Returned(h)
                 => response'.commands_executed = session'.commands_executed
       /\ session'.commands_executed # session.commands_executed
            => \E h \in Handlers : ExecSucceeded(h)]_vars

\* a successful command, then failures up to MAX_RETRIES: the response is a
\* failure whose log still holds the command
C20_Witness ==
    /\ response.status = "failure"
    /\ session.retry_count = MAX_RETRIES
    /\ response.commands_executed = <<"click">>
    /\ session.commands_executed = <<"click">>

LoopEntered(h) ==
    /\ hs[h].pc \in {"idle", "w_context", "w_page"}
    /\ hs'[h].pc = "loop"

\* C21: an invocation enters its loop with action_done false and
\* retry_count zero, whatever an earlier or a running invocation on the
\* session left in them
C21_LoopStartsReset ==
    [][\A h \in Handlers :
          LoopEntered(h) => /\ ~session'.action_done
                            /\ session'.retry_count = 0]_vars

\* h2 is at the top of its loop with the flags reset while h1, whose only
\* command failed, is still in its settling delay
C21_Witness ==
    /\ hs["h2"].pc = "loop"
    /\ hs["h1"].pc = "w_settle"
    /\ session.commands_executed = <<>>
    /\ session.retry_count = 0 /\ ~session.action_done

\* the grounding pass of h has returned and its settling delay is running
Grounded(h) == hs[h].pc = "w_settle" /\ hs[h].page_elements # NoElements

\* C22: what a grounding pass returns lists at most ELEMENT_CAP elements, and
\* for a page without a qualifying element it is the "no interactive
\* elements" text, never an empty listing or nothing
C22_GroundingCapped ==
    \A h \in Handlers :
       Grounded(h)
       => /\ hs[h].page_elements.count <= ELEMENT_CAP
          /\ hs[h].page_elements.kind = "elements"
                => hs[h].page_elements.count = Min(hs[h].dom.elements, ELEMENT_CAP)
                   /\ hs[h].page_elements.count > 0
          /\ (hs[h].dom.elements = 0 /\ ~hs[h].dom.raised)
                => hs[h].page_elements = NoInteractive

\* a page with more elements than the cap was grounded
C22_Witness ==
    /\ Grounded("h1")
    /\ hs["h1"].dom.elements > ELEMENT_CAP
    /\ hs["h1"].page_elements = [kind |-> "elements", count |-> ELEMENT_CAP]

\* C23: when the extraction raises, the grounding pass returns the text it
\* returns for a page without interactive elements, and the invocation goes
\* on to its settling delay with the retry counter at zero and the command
\* that succeeded still in the log
C23_ExtractionErrorIsSentinel ==
    [][\A h \in Handlers :
          (hs[h].pc = "w_ground" /\ hs'[h].pc # "w_ground" /\ hs'[h].dom.raised)
          => /\ hs'[h].page_elements = NoInteractive
             /\ hs'[h].pc = "w_settle"
             /\ session'.retry_count = 0
             /\ session'.commands_executed = session.commands_executed]_vars

\* C24: a service error of the reasoning service is handled as a malformed
\* reply: the retry counter grows by one, no command is executed or logged,
\* the handler stays in its loop without a settling delay, and the invocation
\* ends without another reply only if the counter has reached MAX_RETRIES
C24_ServiceErrorIsMalformed ==
    [][\A h \in Handlers :
          /\ (hs[h].pc = "loop" /\ reply'.error)
             => /\ Malformed(reply'.text)
                /\ session'.retry_count = session.retry_count + 1
                /\ session'.commands_executed = session.commands_executed
                /\ browser' = browser
                /\ hs' = hs
                /\ response' = NoResponse
          /\ (hs[h].pc = "loop" /\ reply.error /\ hs'[h].pc = "idle"
                /\ ~reply'.asked)
             => session.retry_count >= MAX_RETRIES]_vars

\* the service raised after a command had succeeded, and the invocation is
\* still in its loop
C24_Witness ==
    /\ reply.error
    /\ hs["h1"].pc = "loop"
    /\ session.retry_count = 1
    /\ session.commands_executed # <<>>

\* the step is the failure of new_context() or new_page() at the intake of
\* h (lines 1538-1540 and 1568-1570): h resumes and nothing was created
CreationFailed(h) ==
    /\ \A g \in Handlers \ {h} : hs'[g] = hs[g]
    /\ \/ hs[h].pc = "w_context" /\ browser'.nctx = browser.nctx
       \/ hs[h].pc = "w_page" /\ browser'.npages = browser.npages

\* C25: when new_context() or new_page() fails at the intake, the invocation
\* ends at once with an error; nothing is asked of the reasoning service,
\* no command is executed, and the retry counter, the log and the browser
\* are as they were
C25_CreationFailureIsFatal ==
    [][\A h \in Handlers :
          CreationFailed(h)
          => /\ hs'[h] = IdleHandler
             /\ response'.handler = h /\ response'.status = "http500"
             /\ response'.error \in {"context", "page"}
             /\ ~reply'.asked
             /\ session'.retry_count = session.retry_count
             /\ session'.commands_executed = session.commands_executed
             /\ browser' = browser]_vars

\* new_page() failed in the context that the same intake had created
C25_Witness ==
    /\ response.status = "http500" /\ response.error = "page"
    /\ session.browser_context # NoCtx /\ session.page = NoPage
    /\ hs["h1"] = IdleHandler
    /\ session.retry_count = 0 /\ session.commands_executed = <<>>

\* C26: the grounding pass that observes an action runs after the settling
\* delay that follows the action: when that delay starts, no grounding pass
\* has run since the action
C26_SettleBeforeGrounding ==
    \A h \in Handlers :
       hs[h].pc = "w_settle" => hs[h].page_elements = NoElements

\* C27: a click with open_in_new_tab on a link that does not open in a new
\* tab leaves the link with the target and the rel it had before the call,
\* so that a later click sees it as not opening in a new tab
C27_NewTabNotPersisted ==
    [][(/\ dom'.click.open_in_new_tab
        /\ dom'.click.outcomes = <<"clicked">>
        /\ dom.element.tagName = "A"
        /\ ~alreadyOpensInNewTab(dom.element))
       => /\ dom'.element = dom.element
          /\ ~alreadyOpensInNewTab(dom'.element)]_vars

\* the attempts of a text click in their fixed order
TextChain == <<"script", "button", "link", "text">>

\* seq is the start of chain
IsPrefix(seq, chain) ==
    /\ Len(seq) <= Len(chain)
    /\ \A i \in 1..Len(seq) : seq[i] = chain[i]

\* C28 as stated: the attempts of a text click are made in the order script,
\* button, link, text; a later one only if every earlier one found nothing;
\* and the click fails only after all four failed
C28_TextClickAllTried ==
    dom.click.selector_type = "text"
    => /\ IsPrefix(dom.click.attempts, TextChain)
       /\ \A i \in 2..Len(dom.click.attempts) : \A j \in 1..(i - 1) :
             dom.click.outcomes[j] = "not_found"
       /\ ~dom.click.result
             => /\ dom.click.attempts = TextChain
                /\ \A j \in 1..4 : dom.click.outcomes[j] # "clicked"

\* C28: the attempts of a text click are made in the order script, button,
\* link, text; a native attempt is made only if the script found nothing
\* and no earlier native attempt clicked; no attempt follows one that
\* clicked; the click succeeds when its last attempt clicked, and fails when
\* the script raised, when the wait after the script's click raised, or
\* when all four attempts were made and none clicked
C28_TextClickChain ==
    dom.click.selector_type = "text"
    => LET a == dom.click.attempts
           o == dom.click.outcomes
       IN  /\ a # <<>> /\ IsPrefix(a, TextChain)
           /\ Len(a) > 1 => o[1] = "not_found"
           /\ \A j \in 1..(Len(a) - 1) : o[j] # "clicked"
           /\ dom.click.result => o[Len(a)] = "clicked"
           /\ ~dom.click.result
                 => \/ a = <<"script">> /\ o[1] = "error"
                    \/ a = <<"script">> /\ o[1] = "clicked" /\ dom.click.wait_raised
                    \/ a = TextChain /\ \A j \in 1..4 : o[j] # "clicked"

\* the script found nothing, the button click raised, no link was found,
\* and the text match clicked
C28_Witness ==
    /\ dom.click.selector_type = "text"
    /\ dom.click.attempts = TextChain
    /\ dom.click.outcomes = <<"not_found", "error", "not_found", "clicked">>
    /\ dom.click.result

\* the first non-blank line of the text is a command of the vocabulary
\* (its fence markers aside)
IsCommand(text) ==
    /\ NonBlank(text) # <<>>
    /\ NonBlank(text)[1].kind = "object"
    /\ NonBlank(text)[1].action \in Vocabulary

\* C29: for a reply whose first non-blank line is a command, the parser
\* returns that command; for the completed command it returns no hint and
\* is_completed, whatever follows; for another command it returns the second
\* non-blank line as the hint, the default hint when there is none, and not
\* is_completed
C29_HintIsSecondLine ==
    (reply.asked /\ IsCommand(reply.text))
    => LET lines == NonBlank(reply.text)
           r == parse_javascript_response(reply.text)
       IN  /\ r.command_dict = [lines[1] EXCEPT !.fence = FALSE]
           /\ lines[1].action = "completed"
                 => r.is_completed /\ r.next_command = NoNext
           /\ lines[1].action # "completed"
                 => /\ ~r.is_completed
                    /\ Len(lines) = 1 => r.next_command = DefaultNext
                    /\ Len(lines) > 1
                          => r.next_command = [kind |-> "line", line |-> lines[2]]

\* a blank line, then a command that was executed: the default hint
C29_Witness ==
    /\ reply.asked /\ Len(reply.text) = 2
    /\ IsBlank(reply.text[1])
    /\ reply.text[2].action = "click"
    /\ parse_javascript_response(reply.text).next_command = DefaultNext
    /\ hs["h1"].pc = "w_exec"

\* the lines of the text that hold more than a fence marker
Written(text) == {i \in 1..Len(text) : ~IsBlank(text[i]) /\ text[i] # FenceLine}

\* the text without the fence markers around its payload, the first line
\* that holds more than a marker: a line that held only a marker is blank,
\* and the payload is without the markers on its line
Unfenced(text) ==
    [i \in 1..Len(text) |->
        IF text[i] = FenceLine THEN Other("blank")
        ELSE IF \A j \in Written(text) : i <= j
             THEN [text[i] EXCEPT !.fence = FALSE]
             ELSE text[i]]

\* the payload of the text is a command
Payload(text) == IsCommand(Unfenced(text))

\* C30: a reply whose command has fence markers around it, on its line or
\* on lines of their own, parses to what the reply without the markers
\* parses to
C30_FencesAreStripped ==
    (reply.asked /\ Payload(reply.text))
    => parse_javascript_response(reply.text)
          = parse_javascript_response(Unfenced(reply.text))

\* C31: a wait_element call fails only when the document held no element the
\* selector means at its last poll, for every selector kind (a call that
\* page.evaluate ended with an error aside)
C31_WaitFindsElement ==
    [][(wait.pc = "polling" /\ wait'.pc = "done" /\ ~wait'.raised /\ ~wait'.result)
         => ~wait.present]_vars

\* C32: CommandExecutor.execute invokes a method on the page only for a
\* command that starts with 'page.' and whose page methods are all in the
\* allowed list; for every other command it raises ValueError and invokes
\* nothing
C32_OnlyAllowedMethodsRun ==
    LET command == executor.command
        permitted ==
            /\ command.page_prefix
            /\ \A i \in 1..Len(command.methods) :
                  command.methods[i] \in allowed_methods
    IN  /\ executor.invoked # <<>> => permitted
        /\ (executor.raised # "none" /\ ~permitted) =>
              (executor.raised = "ValueError" /\ executor.invoked = <<>>)

\* C33: when get_all_pages returns, the index it reports for a page that is
\* open is the index by which switch_to_tab and close_tab select that page,
\* whether or not the list it enumerated holds pages that are closed by then
C33_ReportedIndexSelects ==
    [][(tabs.pc = "w_title" /\ tabs'.pc = "done") =>
         \A k \in 1..Len(tabs'.page_info) :
            LET entry == tabs'.page_info[k]
            IN  Unskipped(browser', <<entry.page>>, 0) # {} =>
                  /\ SwitchSelects(browser', session', entry.index) = entry.page
                  /\ CloseSelects(browser', session', entry.index) = entry.page]_vars

\* C34: when the loop is about to execute a command, the session's active
\* page is an open page
C34_ActivePageIsOpen ==
    [][\A h \in Handlers :
          (hs[h].pc = "loop" /\ reply'.asked
           /\ ~Malformed(reply'.text) /\ ~Completed(reply'.text))
          => ~is_closed(session.page)]_vars

\* C35: no call of close_session ends in an error at its removal of the
\* session from the registry, also when another call on the session is
\* between its awaits
C35_ClosersDoNotCollide == \A c \in Closers : cl[c].out # "KeyError"

\* C36: every open context is the one the session references, and every open
\* page is a page of that context or a page the session tracks, so that
\* close_session closes all of them
C36_SessionOwnsItsResources ==
    /\ \A c \in browser.open : c = session.browser_context
    /\ \A p \in OpenPages :
          \/ p \in Range(ContextPages(session.browser_context))
          \/ p \in Range(session.all_pages)
          \/ p = session.page

\* C37: a click_element call that succeeds through the script has delivered
\* one press, one release and one click event to the element, in that order,
\* with and without open_in_new_tab
C37_OneClickEvent ==
    (dom.click.attempts # <<>> /\ dom.click.outcomes[1] = "clicked"
     /\ dom.click.result)
    => dom.click.events = <<"mousedown", "mouseup", "click">>

\* C38: in server.py a session that is registered has fewer than 3 failed
\* interactions in a row (the third one tears it down), its count is zero
\* after a success, a failure below the cap is answered retry with
\* retries_left = 3 - count, and a session is no longer registered once an
\* interaction on it was answered failed
C38_TornDownAtThreeFailures ==
    /\ \A id \in DOMAIN legacy.sessions :
          /\ legacy.sessions[id].streak < LegacyRetries
          /\ legacy.sessions[id].streak = 0 => legacy.sessions[id].retry_count = 0
    /\ legacy.response.status = "retry" =>
          \E id \in DOMAIN legacy.sessions :
             legacy.response.retries_left
                = LegacyRetries - legacy.sessions[id].retry_count
    /\ legacy.response.status = "failed" =>
          \E id \in legacy.issued : id \notin DOMAIN legacy.sessions

\* C39: in server.py end_session answers 'session closed' and leaves the id
\* unregistered, for a session with or without a page; for an id that is
\* not registered it changes nothing
C39_EndSessionRemoves ==
    [][\A id \in LegacyIds : \A fault \in {"none", "close"} :
          LegacyEndSession(id, fault) =>
             /\ legacy'.response.status = "session closed"
             /\ id \notin DOMAIN legacy'.sessions
             /\ id \notin DOMAIN legacy.sessions =>
                   /\ legacy'.sessions = legacy.sessions
                   /\ legacy'.open = legacy.open]_vars

\* the history is the system message followed by user and assistant
\* messages in turn, ending with an assistant message
Alternating(messages) ==
    /\ messages[1].role = "system"
    /\ Len(messages) % 2 = 1
    /\ \A i \in 2..Len(messages) :
          messages[i].role = IF i % 2 = 0 THEN "user" ELSE "assistant"

\* C40: after every generate_response call of the Perplexity wrapper the
\* history is the system message followed by alternating user and
\* assistant messages, and a call that failed left the history as it was
C40_HistoryAlternates ==
    [][/\ Alternating(chat'.messages)
       /\ chat'.returned = "error" => chat'.messages = chat.messages]_vars
====
